---------------------------- MODULE Spec2Model ----------------------------
(***************************************************************************)
(* A model of theodcr/spotify-dashboards.                                  *)
(*                                                                         *)
(* src/0_fetch_data_build_features.ipynb holds two notebooks one after the *)
(* other: lines 1-549 are notebook 0 (fetch the raw collections and build  *)
(* the two feature tables), lines 551-898 are notebook 1 (the dashboard    *)
(* served by a Python backend: Panel, Holoviews, Bokeh).                   *)
(* src/2_altair_dashboard.ipynb is notebook 2 (the static HTML dashboard). *)
(*                                                                         *)
(* The module holds several sub-models over one set of variables.  Each    *)
(* has its own Init and Next and leaves the variables of the others at     *)
(* their idle value.  A session of the served dashboard runs notebook 1    *)
(* from its first cell on its own tables; the sessions share the two files *)
(* they load.                                                              *)
(*   Spec      the backend dashboard: load, preprocess, widget events      *)
(*   SpecPair  two sessions of the backend dashboard over the same files   *)
(*   SpecPrep  the dashboard's preprocessing cell on drawn album tables    *)
(*   SpecDecade  the same cell on one album of any year a date can have    *)
(*   SpecGenre the genre cells of notebook 0 on drawn artist lists         *)
(*   SpecAgg   a cell of the album feature table, run once albums is bound *)
(*   SpecBuild the cells of the artist feature table, run after run, each  *)
(*             new run taking the fetch cells first                        *)
(*   SpecBuildAny  the same, for users following any number of artists     *)
(*   SpecJoin  the cells of both feature tables in one kernel              *)
(*   SpecFiles runs of the cells of both tables on changing inputs         *)
(*   SpecRun   the fetch cells, run from the top, adapter calls failing    *)
(*   SpecRunMany  the same, for a user who follows NClusters artists       *)
(*   SpecAltair   the static dashboard: load, join, charts, selections     *)
(***************************************************************************)
EXTENDS Integers, Sequences, FiniteSets, TLC

VARIABLES
    albums_json,    \* dashboard: the rows of data/albums_features.json
    artists_json,   \* dashboard: the rows of data/artists_features.json
    dpc,            \* dashboard d -> "idle", "loaded" (read_json done), "ready"
    dash_albums,    \* dashboard d -> its albums DataFrame, a sequence of rows
    dash_artists,   \* dashboard d -> its artists DataFrame, a sequence of rows
    widgets,        \* dashboard d -> its widget values
    view,           \* dashboard d -> layout[-1][-1], the album view
    updated,        \* dashboard d -> the update callback has run
    chart_data,     \* notebook 2: data, the albums joined to their artists
    ran,            \* notebook 0: the cells that have run in this kernel
    error,          \* notebook 0: the exception that stopped it, or "none"
    artists,        \* notebook 0: the followed artists, a list of records
    genres_binarized,   \* notebook 0: [columns, rows], rows of 0/1
    genres_tfidf,       \* notebook 0: [columns, rows], rows of weights
    genre_specifics,    \* notebook 0: one genre tag per artist
    albums,             \* notebook 0: the album records, a list
    audio_features,     \* notebook 0: a dict, [uri, feats] in insertion order
    albums_features,    \* notebook 0: the album feature table, a list of rows
    tsne,               \* notebook 0: the fitted TSNE, [embedding_]
    km,                 \* notebook 0: the fitted KMeans, [cluster_centers_, labels_]
    genre_clusters,     \* notebook 0: one cluster label per artist
    artists_features,   \* notebook 0: the artist feature table, a list of rows
    source,         \* the music service: [followed, albums_of, album]
    calls,          \* the adapter calls of the run, [op, arg, outcome], in order
    partial,        \* notebook 0: the items of the comprehension under way
    artist_albums,  \* notebook 0: a dict, [uri, albums] in insertion order
    all_albums,     \* notebook 0: the album lists of all artists, joined
    run,            \* the number of the run (of the kernel) under way
    writes,         \* the files written under data/, [run, name, data]
    entropy,        \* the state of the kernel's global random generator
    library,        \* what a fit returns, per state of its generator
    earlier,        \* what the earlier runs left in their kernels
    files           \* the files under data/: name -> content

dashVars == <<albums_json, artists_json, dpc, dash_albums, dash_artists, widgets, view, updated, chart_data>>
genreVars == <<artists, genres_binarized, genres_tfidf, genre_specifics>>
aggVars == <<albums, audio_features, albums_features>>
kernelVars == <<ran, error>>
buildVars == <<tsne, km, genre_clusters, artists_features>>
fetchVars == <<source, calls, partial, artist_albums, all_albums>>
envVars == <<run, writes, entropy, library, earlier, files>>

vars == <<dashVars, kernelVars, genreVars, aggVars, buildVars, fetchVars, envVars>>

\* A variable that holds nothing yet, and a notebook that has not started.
Unset == <<>>
Idle == "idle"

----------------------------------------------------------------------------
(* Bounds of the model.                                                    *)

MaxArtists == 2     \* rows of the artists table
MaxAlbums == 2      \* rows of the albums table (Spec, SpecAltair)
MaxPrepAlbums == 3  \* rows of the albums table (SpecPrep)
MaxGenreArtists == 3    \* followed artists (SpecGenre)
MaxTags == 3        \* distinct genre tags
MaxAlbumUris == 2   \* distinct albums the source knows (SpecAgg)
MaxAlbumList == 3   \* length of the fetched album list (SpecAgg)
MaxClusterArtists == 8  \* followed artists (SpecBuild)
MaxRuns == 2        \* runs of the Feature Builder (SpecBuild)
MaxRunArtists == 2  \* followed artists (SpecRun)
MaxArtistAlbums == 2    \* albums listed for an artist (SpecRun)
MaxPosition == 2    \* coordinates of the genre layout (SpecAltair)

----------------------------------------------------------------------------
(* Helpers: sequences.                                                     *)

Range(s) == {s[i] : i \in DOMAIN s}

RECURSIVE SeqSum(_)
SeqSum(s) == IF s = <<>> THEN 0 ELSE Head(s) + SeqSum(Tail(s))

\* Insert x into the ascending sequence s.
RECURSIVE Insert(_, _)
Insert(x, s) ==
    IF s = <<>> THEN <<x>>
    ELSE IF x <= Head(s) THEN <<x>> \o s
    ELSE <<Head(s)>> \o Insert(x, Tail(s))

RECURSIVE SortAsc(_)
SortAsc(s) == IF s = <<>> THEN <<>> ELSE Insert(Head(s), SortAsc(Tail(s)))

\* All sequences over S of length lo..hi.
SeqsOf(S, lo, hi) == UNION {[1..n -> S] : n \in lo..hi}

----------------------------------------------------------------------------
(* Notebook 1 (and 2): preprocessing of the loaded feature tables.         *)
(*                                                                         *)
(* A loaded album row is [artist_uri, artist_name, release_date, loudness]:*)
(* release_date is held by its year, loudness in fixed point.  The other   *)
(* columns (name, image, popularity, the other descriptors) are not read   *)
(* by any filter and are left out.                                         *)

\* The decimal digits of n >= 0, most significant first: str(n).
RECURSIVE Digits(_)
Digits(n) == IF n < 10 THEN <<n>> ELSE Digits(n \div 10) \o <<n % 10>>

\* s[:k] of Python.
Take(s, k) == SubSeq(s, 1, IF Len(s) < k THEN Len(s) ELSE k)

\* A decade cut after two digits: the century.
CenturyOf(year) == Take(Digits(year), 2) \o <<0>>

\* albums.year.astype(str).str[:3] + "0": a string, held as its digits.
DecadeOf(year) == Take(Digits(year), 3) \o <<0>>

\* The denominators and numerators of the quantiles 0.05 and 0.95.
QuantileDen == 20
LowerQ == 1
UpperQ == 19

\* Series.quantile(q / QuantileDen) with pandas' default linear
\* interpolation: on the sorted values v[0..n-1] the position is
\* (n - 1) * q, and the result lies between its two neighbours.  Loudness is
\* held in units of 1 / QuantileDen dB and the loaded values are whole dB,
\* so the division below is exact.  vals is not empty.
Quantile(vals, q) ==
    LET s == SortAsc(vals)
        pos == (Len(s) - 1) * q
        lo == pos \div QuantileDen
        frac == pos % QuantileDen
    IN  IF frac = 0 THEN s[lo + 1]
        ELSE s[lo + 1] + (frac * (s[lo + 2] - s[lo + 1])) \div QuantileDen

\* Series.clip(lower, upper) on one value (numpy: minimum(maximum(v, lower), upper)).
ClipLower(v, lower, upper) == IF v < lower THEN lower ELSE v
Clip(v, lower, upper) ==
    LET a == IF v < lower THEN lower ELSE v
    IN  IF a > upper THEN upper ELSE a

LoudnessColumn(rows) == [i \in DOMAIN rows |-> rows[i].loudness]

\* The preprocessing cell: year, decade and clipped loudness of every row.
\* Both quantiles are taken of the column as loaded, before any clipping.
PreprocessAlbums(rows) ==
    LET lower == Quantile(LoudnessColumn(rows), LowerQ)
        upper == Quantile(LoudnessColumn(rows), UpperQ)
    IN  [i \in DOMAIN rows |->
            [artist_uri |-> rows[i].artist_uri,
             artist_name |-> rows[i].artist_name,
             release_date |-> rows[i].release_date,
             year |-> rows[i].release_date,
             decade |-> DecadeOf(rows[i].release_date),
             loudness |-> Clip(rows[i].loudness, lower, upper)]]

----------------------------------------------------------------------------
(* Notebook 1: widgets, the album view and the update callback.            *)

\* The options of the three dropdowns (the sorted list `columns`).
Columns ==
    {"popularity", "release_date", "total_tracks", "duration_ms",
     "danceability", "energy", "key", "loudness", "mode", "speechiness",
     "acousticness", "instrumentalness", "liveness", "valence", "tempo",
     "time_signature", "year"}

\* The options a dropdown event of the model picks from.
ColumnChoices == {"valence", "popularity"}

\* decades: the distinct decade strings of the albums table (the options of
\* the checkbox group; their order plays no part in a filter).
Decades(rows) == {rows[i].decade : i \in DOMAIN rows}

\* The widget values after the widgets cell: every decade checked, no artist
\* selected, the default axes.
InitialWidgets(rows) ==
    [index |-> {}, decades |-> Decades(rows),
     x |-> "valence", y |-> "popularity", color |-> "loudness"]

\* create_albums_points: the album view is the data it is given and the
\* three column choices (x or x_select.value is x for a non-empty x).
create_albums_points(data, x, y, color) ==
    [data |-> data, x |-> x, y |-> y, color |-> color]

\* The rows update hands to create_albums_points: an artist filter BY NAME
\* when the selection is not empty, then the decade filter.  A boolean mask
\* on a DataFrame keeps the rows in their order (SelectSeq).
ArtistNames(arts, index) == {arts[i].name : i \in index}

FilterAlbums(rows, arts, w) ==
    LET InNames(r) == r.artist_name \in ArtistNames(arts, w.index)
        InDecades(r) == r.decade \in w.decades
        data_albums == IF w.index # {} THEN SelectSeq(rows, InNames) ELSE rows
    IN  SelectSeq(data_albums, InDecades)

\* An update that would keep the filtered rows as the albums table.
AlbumsNarrowed(table, data_albums) == data_albums

\* The albums table after update: data_albums is a name local to update and
\* a boolean mask makes a new frame, so the table is the one it was.
AlbumsAfterUpdate(table, data_albums) == table

\* update(event) on dashboard d, the widget values being w.
UpdateStale(d, w) ==
    /\ view' = [view EXCEPT ![d] =
            create_albums_points(FilterAlbums(view[d].data, dash_artists[d], w),
                                 w.x, w.y, w.color)]
    /\ dash_albums' = dash_albums
    /\ updated' = [updated EXCEPT ![d] = TRUE]

Update(d, w) ==
    /\ view' = [view EXCEPT ![d] =
            create_albums_points(FilterAlbums(dash_albums[d], dash_artists[d], w),
                                 w.x, w.y, w.color)]
    /\ dash_albums' = [dash_albums EXCEPT ![d] =
            AlbumsAfterUpdate(dash_albums[d],
                              FilterAlbums(dash_albums[d], dash_artists[d], w))]
    /\ updated' = [updated EXCEPT ![d] = TRUE]

\* The cell of the two read_json calls, in the session of dashboard d: every
\* session runs the notebook from its first cell, on its own.
Load(d) ==
    /\ dpc[d] = Idle
    /\ dash_albums' = [dash_albums EXCEPT ![d] = albums_json]
    /\ dash_artists' = [dash_artists EXCEPT ![d] = artists_json]
    /\ dpc' = [dpc EXCEPT ![d] = "loaded"]
    /\ UNCHANGED <<albums_json, artists_json, widgets, view, updated, chart_data>>

\* The preprocessing cell.
Preprocess(d) ==
    /\ dpc[d] = "loaded"
    /\ dash_albums' = [dash_albums EXCEPT ![d] = PreprocessAlbums(dash_albums[d])]
    /\ dpc' = [dpc EXCEPT ![d] = "preprocessed"]
    /\ UNCHANGED <<albums_json, artists_json, dash_artists, widgets, view, updated, chart_data>>

\* The widgets cell, the base layout and the watchers of dashboard d.
BuildLayout(d) ==
    /\ dpc[d] = "preprocessed"
    /\ widgets' = [widgets EXCEPT ![d] = InitialWidgets(dash_albums[d])]
    /\ view' = [view EXCEPT ![d] =
            create_albums_points(dash_albums[d], "valence", "popularity", "loudness")]
    /\ dpc' = [dpc EXCEPT ![d] = "ready"]
    /\ UNCHANGED <<albums_json, artists_json, dash_albums, dash_artists, updated, chart_data>>

\* A widget event: the watched value changes, then update runs.
WidgetEvent(d, w) ==
    /\ w # widgets[d]
    /\ widgets' = [widgets EXCEPT ![d] = w]
    /\ Update(d, w)
    /\ UNCHANGED <<albums_json, artists_json, dpc, dash_artists, chart_data>>

SelectArtists(d) ==
    /\ dpc[d] = "ready"
    /\ \E index \in SUBSET (DOMAIN dash_artists[d]) :
        WidgetEvent(d, [widgets[d] EXCEPT !.index = index])

CheckDecades(d) ==
    /\ dpc[d] = "ready"
    /\ \E value \in SUBSET Decades(dash_albums[d]) :
        WidgetEvent(d, [widgets[d] EXCEPT !.decades = value])

SelectX(d) ==
    /\ dpc[d] = "ready"
    /\ \E c \in ColumnChoices : WidgetEvent(d, [widgets[d] EXCEPT !.x = c])

SelectY(d) ==
    /\ dpc[d] = "ready"
    /\ \E c \in ColumnChoices : WidgetEvent(d, [widgets[d] EXCEPT !.y = c])

SelectColor(d) ==
    /\ dpc[d] = "ready"
    /\ \E c \in ColumnChoices : WidgetEvent(d, [widgets[d] EXCEPT !.color = c])

\* An event delivered with the widget values as they are: update runs again.
Refire(d) ==
    /\ dpc[d] = "ready"
    /\ Update(d, widgets[d])
    /\ UNCHANGED <<albums_json, artists_json, dpc, dash_artists, widgets, chart_data>>

----------------------------------------------------------------------------
(* Notebook 0: the genre cells.                                            *)
(*                                                                         *)
(* An artist record is [uri, genres].  A genre tag is a number, its rank   *)
(* in the order of the tag strings; genres is the set of the artist's tags *)
(* (the source's list holds no tag twice).                                 *)

\* The files of DATA_DIR, by their name without ".json"; none is there yet.
Datasets == {"artists", "albums", "artists_features", "albums_features"}
NoFiles == [name \in Datasets |-> Unset]

\* A file written twice would hold both contents if writes added to it.
AppendFile(fs, name, data) == [fs EXCEPT ![name] = @ \o data]

\* Path.write_text and DataFrame.to_json open the file for writing: the
\* content is replaced.
WriteFile(fs, name, data) == [fs EXCEPT ![name] = data]

\* sorted(S) for a finite set of numbers.
RECURSIVE SortedSeq(_)
SortedSeq(S) ==
    IF S = {} THEN <<>>
    ELSE LET least == CHOOSE x \in S : \A y \in S : x <= y
         IN  <<least>> \o SortedSeq(S \ {least})

AllGenres(arts) == UNION {arts[i].genres : i \in DOMAIN arts}

\* The tags of every artist one after the other, a tag once per artist.
RECURSIVE ConcatGenres(_)
ConcatGenres(arts) ==
    IF arts = <<>> THEN <<>>
    ELSE SortedSeq(Head(arts).genres) \o ConcatGenres(Tail(arts))

BinaryRows(arts, columns) ==
    [i \in DOMAIN arts |->
        [j \in DOMAIN columns |-> IF columns[j] \in arts[i].genres THEN 1 ELSE 0]]

\* MultiLabelBinarizer().fit_transform: classes_ is the sorted set of all
\* labels, and cell (i, j) is 1 when sample i carries classes_[j].
BinarizeNoDedup(arts) ==
    [columns |-> ConcatGenres(arts), rows |-> BinaryRows(arts, ConcatGenres(arts))]

Binarize(arts) ==
    [columns |-> SortedSeq(AllGenres(arts)),
     rows |-> BinaryRows(arts, SortedSeq(AllGenres(arts)))]

\* Weights are held in fixed point, in thousandths.
Milli == 1000

\* 1000 * ln(k), rounded, for k = 1..12.
LnMilli == <<0, 693, 1099, 1386, 1609, 1792, 1946, 2079, 2197, 2303, 2398, 2485>>

\* floor(sqrt(x)) for x >= 0, by bisection.
RECURSIVE ISqrtBetween(_, _, _)
ISqrtBetween(x, lo, hi) ==
    IF lo >= hi THEN lo
    ELSE LET mid == (lo + hi + 1) \div 2
         IN  IF mid * mid <= x THEN ISqrtBetween(x, mid, hi)
             ELSE ISqrtBetween(x, lo, mid - 1)

\* 46340 is floor(sqrt(2^31 - 1)): the squares below stay 32-bit numbers.
ISqrt(x) == ISqrtBetween(x, 0, IF x < 46340 THEN x ELSE 46340)

\* The document frequency of column j: the rows with a non-zero cell.
DocFreq(rows, j) == Cardinality({i \in DOMAIN rows : rows[i][j] # 0})

\* TfidfTransformer's idf with smooth_idf: ln((1 + n) / (1 + df)) + 1.
Idf(n, df) == LnMilli[1 + n] - LnMilli[1 + df] + Milli

\* TfidfTransformer().fit_transform (norm="l2", use_idf, smooth_idf): tf * idf,
\* every row divided by its Euclidean norm; a zero row stays zero.
TfidfRows(rows, ncols) ==
    LET n == Len(rows)
        raw(i, j) == rows[i][j] * Idf(n, DocFreq(rows, j))
        sumsq(i) == SeqSum([j \in 1..ncols |-> raw(i, j) * raw(i, j)])
    IN  [i \in DOMAIN rows |->
            [j \in 1..ncols |->
                IF sumsq(i) = 0 THEN 0
                ELSE (raw(i, j) * Milli) \div ISqrt(sumsq(i))]]

Tfidf(bin) == [columns |-> bin.columns, rows |-> TfidfRows(bin.rows, Len(bin.columns))]

\* Series.idxmax on one row: the label of the first column holding the
\* maximum.  The row is not empty.
IdxMaxLast(row, columns) ==
    LET j == CHOOSE k \in DOMAIN row :
                /\ \A l \in DOMAIN row : row[l] <= row[k]
                /\ \A l \in DOMAIN row : row[l] = row[k] => l <= k
    IN  columns[j]

IdxMax(row, columns) ==
    LET j == CHOOSE k \in DOMAIN row :
                /\ \A l \in DOMAIN row : row[l] <= row[k]
                /\ \A l \in DOMAIN row : row[l] = row[k] => k <= l
    IN  columns[j]

\* The cell of mlb and genres_binarized.
CellBinarize ==
    /\ error = "none"
    /\ "binarize" \notin ran
    /\ genres_binarized' = Binarize(artists)
    /\ ran' = ran \cup {"binarize"}
    /\ UNCHANGED <<error, artists, genres_tfidf, genre_specifics>>

\* The cell of tfidf and genres_tfidf.  check_array refuses a matrix of no
\* column with a ValueError.
CellTfidf ==
    /\ error = "none"
    /\ "binarize" \in ran
    /\ "tfidf" \notin ran
    /\ ran' = ran \cup {"tfidf"}
    /\ IF genres_binarized.columns = <<>>
       THEN /\ error' = "ValueError"
            /\ UNCHANGED genres_tfidf
       ELSE /\ genres_tfidf' = Tfidf(genres_binarized)
            /\ UNCHANGED error
    /\ UNCHANGED <<artists, genres_binarized, genre_specifics>>

\* genre_specifics = genres_tfidf.idxmax(1).
CellGenreSpecifics ==
    /\ error = "none"
    /\ "tfidf" \in ran
    /\ "genre_specifics" \notin ran
    /\ genre_specifics' =
            [i \in DOMAIN genres_tfidf.rows |->
                IdxMax(genres_tfidf.rows[i], genres_tfidf.columns)]
    /\ ran' = ran \cup {"genre_specifics"}
    /\ UNCHANGED <<error, artists, genres_binarized, genres_tfidf>>

\* The variables of the artist table cells, of the fetch cells and of the
\* runs, for the sub-models that do not use them.
BuildIdle ==
    /\ tsne = Unset
    /\ km = Unset
    /\ genre_clusters = Unset
    /\ artists_features = Unset

FetchIdle ==
    /\ source = Unset
    /\ calls = <<>>
    /\ partial = Unset
    /\ artist_albums = Unset
    /\ all_albums = Unset

EnvIdle ==
    /\ run = 1
    /\ writes = <<>>
    /\ entropy = 0
    /\ library = Unset
    /\ earlier = <<>>
    /\ files = NoFiles

KernelIdle ==
    /\ BuildIdle
    /\ FetchIdle
    /\ EnvIdle
    /\ ran = {}
    /\ error = "none"
    /\ artists = Unset
    /\ genres_binarized = Unset
    /\ genres_tfidf = Unset
    /\ genre_specifics = Unset
    /\ albums = Unset
    /\ audio_features = Unset
    /\ albums_features = Unset

DashIdle ==
    /\ albums_json = Unset
    /\ artists_json = Unset
    /\ dpc = Idle
    /\ dash_albums = Unset
    /\ dash_artists = Unset
    /\ widgets = Unset
    /\ view = Unset
    /\ updated = Unset
    /\ chart_data = Unset

GenreTags == 1..MaxTags

ArtistRecords(n) ==
    {[i \in 1..n |-> [uri |-> i, genres |-> g[i]]] : g \in [1..n -> SUBSET GenreTags]}

InitGenre ==
    /\ DashIdle
    /\ ran = {}
    /\ error = "none"
    /\ \E n \in 1..MaxGenreArtists : artists \in ArtistRecords(n)
    /\ genres_binarized = Unset
    /\ genres_tfidf = Unset
    /\ genre_specifics = Unset
    /\ albums = Unset
    /\ audio_features = Unset
    /\ albums_features = Unset
    /\ BuildIdle
    /\ FetchIdle
    /\ EnvIdle

NextGenre ==
    \/ CellBinarize /\ UNCHANGED <<dashVars, aggVars, buildVars, fetchVars, envVars>>
    \/ CellTfidf /\ UNCHANGED <<dashVars, aggVars, buildVars, fetchVars, envVars>>
    \/ CellGenreSpecifics /\ UNCHANGED <<dashVars, aggVars, buildVars, fetchVars, envVars>>

SpecGenre == InitGenre /\ [][NextGenre]_vars

----------------------------------------------------------------------------
(* Notebook 0: the album feature cells.                                    *)
(*                                                                         *)
(* An album record is [uri, artists]: artists is the list of the uris of   *)
(* its contributing artists.  The audio-feature record of a track is       *)
(* [none |-> TRUE] for None, or [none |-> FALSE] with the 12 descriptors,  *)
(* each a whole number of tenths.  audio_features is a dict keyed by album *)
(* uri, held as the list of its [uri, feats] items in insertion order.     *)
(* duration_ms, name, image and the other columns copied from the album    *)
(* are left out.                                                           *)

FeatureKeys ==
    {"danceability", "energy", "key", "loudness", "mode", "speechiness",
     "acousticness", "instrumentalness", "liveness", "valence", "tempo",
     "time_signature"}

RECURSIVE GCD(_, _)
GCD(a, b) == IF b = 0 THEN a ELSE GCD(b, a % b)

Abs(x) == IF x < 0 THEN -x ELSE x

\* The quotient num / den of Python (den > 0), held as a fraction in lowest
\* terms.
Quotient(num, den) ==
    LET g == GCD(Abs(num), den)
    IN  [num |-> num \div g, den |-> den \div g]

\* sum(track[key] for track in album_audio_feat if track is not None)
SumNotNone(feats, key) ==
    SeqSum([t \in DOMAIN feats |-> IF feats[t].none THEN 0 ELSE feats[t][key]])

NotNoneCount(feats) == Cardinality({t \in DOMAIN feats : ~feats[t].none})

\* The mean the cell computes for one descriptor: the sum over the tracks
\* that are not None, divided by len(album_audio_feat), the number of ALL
\* tracks.
DescriptorMean(feats, key) == Quotient(SumNotNone(feats, key), Len(feats))

\* One row of albums_features, from an album and the feats zipped with it.
AlbumFeatureRow(album, feats) ==
    [k \in {"artist_uri", "uri"} \cup FeatureKeys |->
        IF k = "artist_uri" THEN album.artists[1]
        ELSE IF k = "uri" THEN album.uri
        ELSE DescriptorMean(feats, k)]

Min(a, b) == IF a < b THEN a ELSE b

\* pd.DataFrame(... for album, album_audio_feat in
\*     zip(albums, audio_features.values())): the pairs are made by
\* position, and zip stops with the shorter of the two.
AlbumsFeatures(albs, feat_items) ==
    [i \in 1..Min(Len(albs), Len(feat_items)) |->
        AlbumFeatureRow(albs[i], feat_items[i].feats)]

\* albums_features[albums_features.tempo > 0]
TempoPositive(row) == row["tempo"].num > 0

TempoFilter(rows) == SelectSeq(rows, TempoPositive)

\* albums = read_json("albums"): notebook 0 defines save_json and no
\* read_json, so the cell stops with a NameError and albums keeps the value
\* it had.
CellReadAlbums ==
    /\ error = "none"
    /\ "read_albums" \notin ran
    /\ error' = "NameError"
    /\ ran' = ran \cup {"read_albums"}
    /\ UNCHANGED <<albums, audio_features, albums_features>>

\* The albums_features cell.  audio_features is bound by the cell of
\* audio_features alone; while it is not bound the cell stops with a
\* NameError and binds nothing.
CellAlbumsFeatures ==
    /\ error = "none"
    /\ "albums_features" \notin ran
    /\ ran' = ran \cup {"albums_features"}
    /\ IF audio_features = Unset
       THEN /\ error' = "NameError"
            /\ UNCHANGED albums_features
       ELSE /\ albums_features' = AlbumsFeatures(albums, audio_features)
            /\ UNCHANGED error
    /\ UNCHANGED <<albums, audio_features>>

\* The cell that drops the rows of tempo zero; a NameError while
\* albums_features is not bound.
CellTempoFilter ==
    /\ error = "none"
    /\ "tempo_filter" \notin ran
    /\ ran' = ran \cup {"tempo_filter"}
    /\ IF albums_features = Unset
       THEN /\ error' = "NameError"
            /\ UNCHANGED albums_features
       ELSE /\ albums_features' = TempoFilter(albums_features)
            /\ UNCHANGED error
    /\ UNCHANGED <<albums, audio_features>>

\* The album lists of the model.  The source knows the albums AlbumUris;
\* the fetched list names some of them, possibly one twice (an album
\* returned for two followed artists).
AlbumUris == 1..MaxAlbumUris

\* The distinct items of a list, in the order of their first occurrence.
RECURSIVE KeysInOrder(_)
KeysInOrder(uris) ==
    IF uris = <<>> THEN <<>>
    ELSE LET front == KeysInOrder(SubSeq(uris, 1, Len(uris) - 1))
             last == uris[Len(uris)]
         IN  IF last \in Range(front) THEN front ELSE Append(front, last)

AlbumContributors == {<<1>>, <<1, 2>>, <<2, 1>>}

\* albums_features.to_json(DATA_DIR / "albums_features.json"); a NameError
\* while albums_features is not bound.
CellAlbumsToJson ==
    /\ error = "none"
    /\ "albums_to_json" \notin ran
    /\ ran' = ran \cup {"albums_to_json"}
    /\ IF albums_features = Unset
       THEN /\ error' = "NameError"
            /\ UNCHANGED <<writes, files>>
       ELSE /\ writes' = Append(writes, [run |-> run, name |-> "albums_features",
                                         data |-> albums_features])
            /\ files' = WriteFile(files, "albums_features", albums_features)
            /\ UNCHANGED error
    /\ UNCHANGED <<albums, audio_features, albums_features, run, entropy, library, earlier>>

----------------------------------------------------------------------------
(* Notebook 0: the cells of the artist feature table.                      *)
(*                                                                         *)
(* TSNE and KMeans are library code.  A fit draws from a random generator, *)
(* and what it returns is a function of the matrix and of the state the    *)
(* generator starts in.  `library` holds that function for the matrix of   *)
(* the behaviour: library.kmeans[g] is the numbering the clusters get and  *)
(* library.tsne[g] the layout of the points when the generator starts in   *)
(* state g, and library.ties is the order the build's sort leaves two      *)
(* columns of equal weight in.  library.checks_perplexity tells the        *)
(* releases of the library whose TSNE refuses a matrix of no more rows     *)
(* than its perplexity from the older ones, which fit it.  The rows are    *)
(* few enough for k-means to end with the equal rows of the matrix in one  *)
(* cluster.                                                                *)

CONSTANT_RANDOM_STATE == 4
NClusters == 8      \* KMeans(): n_clusters is left at its default
NbLabels == 2
Perplexity == 30    \* TSNE(): perplexity is left at its default

\* The states the global generator of a kernel may start in, and the state
\* of a generator made from the seed.
EntropyStates == {0, 1}
RngStates == EntropyStates \cup {CONSTANT_RANDOM_STATE}

Numberings == {0, 1}
Layouts == {1, 2}
TieOrders == {"higher", "lower"}

Libraries ==
    [kmeans : [RngStates -> Numberings], tsne : [RngStates -> Layouts],
     ties : TieOrders, checks_perplexity : BOOLEAN]

\* The libraries that return the same from every state of the generator.
JoinLibraries == {l \in Libraries : \A g \in RngStates : l.kmeans[g] = 0 /\ l.tsne[g] = 1}

\* The generator unseeded estimators draw from: the global one of the kernel.
GlobalRandomState(random_state, global) == global

\* The generator of an estimator built with random_state=<int>: one of its
\* own, made from the seed at every fit.
RandomState(random_state, global) == random_state

IndexIn(x, s) == CHOOSE i \in DOMAIN s : s[i] = x

\* TSNE(n_components=2).fit(X): one point of the plane per row.
TsneFit(rows, layout) ==
    [embedding_ |-> [i \in DOMAIN rows |-> <<layout * i, layout * (Len(rows) - i)>>]]

\* KMeans().fit(X), X of at least NClusters rows: labels_ numbers the
\* clusters from 0, equal rows share a cluster, and the centre of a cluster
\* is the mean of its rows; a cluster no row falls in stays at the first row.
KMeansFit(rows, numbering) ==
    LET distinct == KeysInOrder(rows)
        cluster(i) == (IndexIn(rows[i], distinct) - 1 + numbering) % NClusters
        members(c) == {i \in DOMAIN rows : cluster(i) = c}
        mean(c, j) ==
            SeqSum([i \in DOMAIN rows |-> IF i \in members(c) THEN rows[i][j] ELSE 0])
                \div Cardinality(members(c))
    IN  [labels_ |-> [i \in DOMAIN rows |-> cluster(i)],
         cluster_centers_ |->
            [c \in 1..NClusters |->
                [j \in DOMAIN rows[1] |->
                    IF members(c - 1) = {} THEN rows[1][j] ELSE mean(c - 1, j)]]]

\* row.argsort()[::-1]: the columns of a row by descending weight.
RECURSIVE ArgsortDescending(_, _, _)
ArgsortDescending(row, remaining, ties) ==
    IF remaining = {} THEN <<>>
    ELSE LET first == CHOOSE k \in remaining : \A l \in remaining :
                        \/ row[l] < row[k]
                        \/ /\ row[l] = row[k]
                           /\ IF ties = "higher" THEN l <= k ELSE k <= l
         IN  <<first>> \o ArgsortDescending(row, remaining \ {first}, ties)

\* The label of a cluster is the list of the nb_labels genres of greatest
\* weight in its centre (the source joins them with ", "); every artist gets
\* the label of its cluster.
get_complex_centers_labels(classes, fitted, nb_labels, ties) ==
    LET labels ==
            [i \in 1..NClusters |->
                LET order == ArgsortDescending(fitted.cluster_centers_[i],
                                               DOMAIN classes, ties)
                IN  [p \in 1..Min(nb_labels, Len(order)) |-> classes[order[p]]]]
    IN  [a \in DOMAIN fitted.labels_ |-> labels[fitted.labels_[a] + 1]]

\* One row of artists_features per artist, the four lists zipped.  name,
\* popularity, followers and image, copied from the artist, are left out.
ArtistsFeatures(arts, clusters, specifics, embedding) ==
    [i \in 1..Min(Min(Len(arts), Len(clusters)), Min(Len(specifics), Len(embedding))) |->
        [uri |-> arts[i].uri,
         genre_cluster |-> clusters[i],
         genre_specific |-> specifics[i],
         genre_x |-> embedding[i][1],
         genre_y |-> embedding[i][2]]]

\* The cells of tsne: TSNE(n_components=2, random_state=...) and tsne.fit.
\* Where the library checks it, perplexity must be less than the number of
\* rows, or the fit stops with a ValueError.
CellTsne ==
    /\ error = "none"
    /\ "tfidf" \in ran
    /\ "tsne" \notin ran
    /\ ran' = ran \cup {"tsne"}
    /\ IF library.checks_perplexity /\ Perplexity >= Len(genres_tfidf.rows)
       THEN /\ error' = "ValueError"
            /\ UNCHANGED tsne
       ELSE /\ tsne' = TsneFit(genres_tfidf.rows,
                            library.tsne[RandomState(CONSTANT_RANDOM_STATE, entropy)])
            /\ UNCHANGED error
    /\ UNCHANGED <<km, genre_clusters, artists_features>>

\* A KMeans that would fit any number of rows.
AnyNumberOfSamples(n_samples, n_clusters) == FALSE

\* KMeans.fit refuses a matrix of fewer rows than clusters.
TooFewSamples(n_samples, n_clusters) == n_samples < n_clusters

\* The cell of km.  KMeans refuses fewer rows than clusters with a
\* ValueError.
CellKMeans ==
    /\ error = "none"
    /\ "tfidf" \in ran
    /\ "km" \notin ran
    /\ ran' = ran \cup {"km"}
    /\ IF TooFewSamples(Len(genres_tfidf.rows), NClusters)
       THEN /\ error' = "ValueError"
            /\ UNCHANGED km
       ELSE /\ km' = KMeansFit(genres_tfidf.rows,
                        library.kmeans[RandomState(CONSTANT_RANDOM_STATE, entropy)])
            /\ UNCHANGED error
    /\ UNCHANGED <<tsne, genre_clusters, artists_features>>

\* genre_clusters = get_complex_centers_labels(mlb, km, nb_labels=2)
CellGenreClusters ==
    /\ error = "none"
    /\ "binarize" \in ran
    /\ "km" \in ran
    /\ "genre_clusters" \notin ran
    /\ genre_clusters' = get_complex_centers_labels(genres_binarized.columns, km,
                                                    NbLabels, library.ties)
    /\ ran' = ran \cup {"genre_clusters"}
    /\ UNCHANGED <<error, tsne, km, artists_features>>

\* The artists_features cell.
CellArtistsFeatures ==
    /\ error = "none"
    /\ {"genre_clusters", "genre_specifics", "tsne"} \subseteq ran
    /\ "artists_features" \notin ran
    /\ artists_features' = ArtistsFeatures(artists, genre_clusters, genre_specifics,
                                           tsne.embedding_)
    /\ ran' = ran \cup {"artists_features"}
    /\ UNCHANGED <<error, tsne, km, genre_clusters>>

\* artists_features.to_json(DATA_DIR / "artists_features.json")
CellArtistsToJson ==
    /\ error = "none"
    /\ "artists_features" \in ran
    /\ "artists_to_json" \notin ran
    /\ writes' = Append(writes, [run |-> run, name |-> "artists_features",
                                 data |-> artists_features])
    /\ files' = WriteFile(files, "artists_features", artists_features)
    /\ ran' = ran \cup {"artists_to_json"}
    /\ UNCHANGED <<error, run, entropy, library, earlier>>

----------------------------------------------------------------------------
(* Notebook 0: the fetch cells, taken from the top in a new kernel.         *)
(*                                                                         *)
(* `source` is the music service: source.followed the artists the user     *)
(* follows, source.albums_of[a] the albums listed for artist a and         *)
(* source.album[u] the full record of album u.  A call of the adapter      *)
(* (powerspot.operations) either returns or raises; `calls` lists the      *)
(* calls issued.  A cell runs when the cell before it has run and no       *)
(* exception has stopped the run.  A comprehension makes one call per      *)
(* step, its items gathering in `partial`, and binds its name once the     *)
(* last item is in.                                                        *)

Outcomes == {"ok", "raise"}
AdapterError == "adapter call failed"

\* A cell that would let the run go on after a call has raised.
Swallow(outcome) == "none"

\* No cell catches an exception: a call that raises stops the run.
Propagate(outcome) == IF outcome = "raise" THEN AdapterError ELSE "none"

Call(op, arg, outcome) == [op |-> op, arg |-> arg, outcome |-> outcome]

\* artists = get_followed_artists(username)
CellFollowedArtists ==
    /\ error = "none"
    /\ "artists" \notin ran
    /\ \E outcome \in Outcomes :
         /\ calls' = Append(calls, Call("get_followed_artists", "username", outcome))
         /\ error' = Propagate(outcome)
         /\ artists' = IF outcome = "ok" THEN source.followed ELSE artists
    /\ ran' = ran \cup {"artists"}
    /\ UNCHANGED <<source, partial, artist_albums, all_albums, albums, writes, files>>

\* save_json("artists", artists)
CellSaveArtists ==
    /\ error = "none"
    /\ "artists" \in ran
    /\ "save_artists" \notin ran
    /\ writes' = Append(writes, [run |-> run, name |-> "artists", data |-> artists])
    /\ files' = WriteFile(files, "artists", artists)
    /\ ran' = ran \cup {"save_artists"}
    /\ UNCHANGED <<error, source, calls, partial, artist_albums, all_albums, artists, albums>>

\* One item of artist_albums: get_artist_albums(artist["uri"], limit=50)
GetArtistAlbums ==
    /\ error = "none"
    /\ "save_artists" \in ran
    /\ "artist_albums" \notin ran
    /\ Len(partial) < Len(artists)
    /\ LET uri == artists[Len(partial) + 1].uri
       IN  \E outcome \in Outcomes :
             /\ calls' = Append(calls, Call("get_artist_albums", uri, outcome))
             /\ error' = Propagate(outcome)
             /\ partial' = IF outcome = "ok"
                           THEN Append(partial, [uri |-> uri, albums |-> source.albums_of[uri]])
                           ELSE partial
    /\ UNCHANGED <<ran, source, artist_albums, all_albums, artists, albums, writes, files>>

\* The comprehension of artist_albums ends.
CellArtistAlbums ==
    /\ error = "none"
    /\ "save_artists" \in ran
    /\ "artist_albums" \notin ran
    /\ Len(partial) = Len(artists)
    /\ artist_albums' = partial
    /\ partial' = <<>>
    /\ ran' = ran \cup {"artist_albums"}
    /\ UNCHANGED <<error, source, calls, all_albums, artists, albums, writes, files>>

\* reduce(lambda x, y: x + y, lists), without an initial value.
RECURSIVE Concat(_)
Concat(lists) == IF lists = <<>> THEN <<>> ELSE Head(lists) \o Concat(Tail(lists))

\* all_albums = reduce(lambda x, y: x + y, artist_albums.values()): reduce
\* of an empty sequence with no initial value is a TypeError.
CellAllAlbums ==
    /\ error = "none"
    /\ "artist_albums" \in ran
    /\ "all_albums" \notin ran
    /\ ran' = ran \cup {"all_albums"}
    /\ IF artist_albums = <<>>
       THEN /\ error' = "TypeError"
            /\ UNCHANGED all_albums
       ELSE /\ all_albums' = Concat([i \in DOMAIN artist_albums |-> artist_albums[i].albums])
            /\ UNCHANGED error
    /\ UNCHANGED <<source, calls, partial, artist_albums, artists, albums, writes, files>>

\* One item of albums: get_album(album["uri"])
GetAlbum ==
    /\ error = "none"
    /\ "all_albums" \in ran
    /\ "albums" \notin ran
    /\ Len(partial) < Len(all_albums)
    /\ LET uri == all_albums[Len(partial) + 1].uri
       IN  \E outcome \in Outcomes :
             /\ calls' = Append(calls, Call("get_album", uri, outcome))
             /\ error' = Propagate(outcome)
             /\ partial' = IF outcome = "ok" THEN Append(partial, source.album[uri])
                           ELSE partial
    /\ UNCHANGED <<ran, source, artist_albums, all_albums, artists, albums, writes, files>>

\* The comprehension of albums ends.
CellAlbums ==
    /\ error = "none"
    /\ "all_albums" \in ran
    /\ "albums" \notin ran
    /\ Len(partial) = Len(all_albums)
    /\ albums' = partial
    /\ partial' = <<>>
    /\ ran' = ran \cup {"albums"}
    /\ UNCHANGED <<error, source, calls, artist_albums, all_albums, artists, writes, files>>

\* save_json("albums", albums)
CellSaveAlbums ==
    /\ error = "none"
    /\ "albums" \in ran
    /\ "save_albums" \notin ran
    /\ writes' = Append(writes, [run |-> run, name |-> "albums", data |-> albums])
    /\ files' = WriteFile(files, "albums", albums)
    /\ ran' = ran \cup {"save_albums"}
    /\ UNCHANGED <<error, source, calls, partial, artist_albums, all_albums, artists, albums>>

\* The cell of audio_features iterates albums.items(); albums is a list, a
\* list has no items(), and the cell stops with an AttributeError before it
\* calls get_audio_features.
CellAudioFeatures ==
    /\ error = "none"
    /\ "save_albums" \in ran
    /\ "audio_features" \notin ran
    /\ error' = "AttributeError"
    /\ ran' = ran \cup {"audio_features"}
    /\ UNCHANGED <<source, calls, partial, artist_albums, all_albums, artists, albums, writes, files>>

\* What a fetch cell leaves alone besides the names of the fetch.
runRest == <<dashVars, buildVars, genres_binarized, genres_tfidf, genre_specifics,
             audio_features, albums_features, run, entropy, library, earlier>>

----------------------------------------------------------------------------
(* Notebook 0: runs of the cells, in kernels of their own.                 *)

\* The cells of the fetch in the order of the notebook.
FetchOrder ==
    <<"artists", "save_artists", "artist_albums", "all_albums", "albums",
      "save_albums">>

FetchRan == Range(FetchOrder)

\* What the fetch cells bind in a run in which no call raises.
FetchedArtistAlbums(src) ==
    [i \in DOMAIN src.followed |->
        [uri |-> src.followed[i].uri,
         albums |-> src.albums_of[src.followed[i].uri]]]

FetchedAllAlbums(src) ==
    Concat([i \in DOMAIN src.followed |-> FetchedArtistAlbums(src)[i].albums])

FetchedAlbums(src) ==
    [k \in DOMAIN FetchedAllAlbums(src) |-> src.album[FetchedAllAlbums(src)[k].uri]]

FetchedCalls(src) ==
    <<Call("get_followed_artists", "username", "ok")>>
    \o [i \in DOMAIN src.followed |->
            Call("get_artist_albums", src.followed[i].uri, "ok")]
    \o [k \in DOMAIN FetchedAllAlbums(src) |->
            Call("get_album", FetchedAllAlbums(src)[k].uri, "ok")]

\* save_json("artists", artists) and save_json("albums", albums) of run r:
\* the writes they make and the files of DATA_DIR after them.
SnapshotWrites(r, arts, albs) ==
    <<[run |-> r, name |-> "artists", data |-> arts],
      [run |-> r, name |-> "albums", data |-> albs]>>

SnapshotFiles(fs, arts, albs) ==
    WriteFile(WriteFile(fs, "artists", arts), "albums", albs)

\* What a run leaves behind when its kernel is shut down.
Leftover ==
    [ran |-> ran, error |-> error, entropy |-> entropy, tsne |-> tsne, km |-> km,
     genre_clusters |-> genre_clusters, artists_features |-> artists_features,
     albums_features |-> albums_features]

\* A new kernel for the next run: no name is bound, no cell has run, the
\* global generator is in a state of its own, and the files of DATA_DIR are
\* what the runs before left.  The service is one of `sources`.
NewKernel(sources) ==
    /\ run < MaxRuns
    /\ run' = run + 1
    /\ earlier' = Append(earlier, Leftover)
    /\ entropy' \in EntropyStates
    /\ source' \in sources
    /\ calls' = <<>>
    /\ partial' = <<>>
    /\ artist_albums' = Unset
    /\ all_albums' = Unset
    /\ ran' = {}
    /\ error' = "none"
    /\ artists' = Unset
    /\ albums' = Unset
    /\ audio_features' = Unset
    /\ albums_features' = Unset
    /\ genres_binarized' = Unset
    /\ genres_tfidf' = Unset
    /\ genre_specifics' = Unset
    /\ tsne' = Unset
    /\ km' = Unset
    /\ genre_clusters' = Unset
    /\ artists_features' = Unset
    /\ UNCHANGED <<writes, files, library, dashVars>>

\* The next run of the Feature Builder, once the run before has stopped or
\* has written its table: a new kernel, the service being as it was.  The
\* run takes the cells from the top, the fetch cells first.
NewBuildRun ==
    /\ error # "none" \/ "artists_to_json" \in ran
    /\ NewKernel({source})

\* The genres of artist i when the subsets of GenreTags, taken in the order
\* of their rank, are dealt to the artists from rank `from` in steps of
\* `step`.
SubsetOfRank(k) == {t \in GenreTags : (k \div (2 ^ (t - 1))) % 2 = 1}

DealtArtists(n, from, step) ==
    [i \in 1..n |->
        [uri |-> i, genres |-> SubsetOfRank((from + step * i) % (2 ^ MaxTags))]]

ClusterArtistLists ==
    {DealtArtists(n, from, 1) : n \in NClusters..MaxClusterArtists, from \in {0, 1}}

\* The album records of the source, when only their uris matter.
FileCatalog == [u \in AlbumUris |-> [artists |-> <<1>>]]

\* The service of a user who follows `arts`: the albums of `uris` are listed
\* for the first artist and none for the others, and `catalog` gives the
\* contributing artists of every album.
SourceOf(arts, catalog, uris) ==
    [followed |-> arts,
     albums_of |-> [i \in DOMAIN arts |->
            IF i = 1 THEN [k \in DOMAIN uris |-> [uri |-> uris[k]]] ELSE <<>>],
     album |-> [u \in AlbumUris |-> [uri |-> u, artists |-> catalog[u].artists]]]

BuildSources == {SourceOf(arts, FileCatalog, <<1>>) : arts \in ClusterArtistLists}

\* A kernel in which the fetch cells have run, no call having raised:
\* artists and albums are bound and saved, and audio_features is not bound
\* (its cell, CellAudioFeatures, binds nothing).  The cells below are run
\* from there.
InitBuildWith(sources, libraries) ==
    /\ DashIdle
    /\ source \in sources
    /\ calls = FetchedCalls(source)
    /\ partial = <<>>
    /\ artist_albums = FetchedArtistAlbums(source)
    /\ all_albums = FetchedAllAlbums(source)
    /\ ran = FetchRan
    /\ error = "none"
    /\ artists = source.followed
    /\ genres_binarized = Unset
    /\ genres_tfidf = Unset
    /\ genre_specifics = Unset
    /\ albums = FetchedAlbums(source)
    /\ audio_features = Unset
    /\ albums_features = Unset
    /\ BuildIdle
    /\ run = 1
    /\ writes = SnapshotWrites(1, artists, albums)
    /\ earlier = <<>>
    /\ files = SnapshotFiles(NoFiles, artists, albums)
    /\ entropy \in EntropyStates
    /\ library \in libraries

\* The libraries of these runs: what a fit returns from the seeded generator
\* is fixed, what it returns from the states of the global one is any.
BuildLibraries ==
    {l \in Libraries :
        l.kmeans[CONSTANT_RANDOM_STATE] = 0 /\ l.tsne[CONSTANT_RANDOM_STATE] = 1}

InitBuild == InitBuildWith(BuildSources, BuildLibraries)

\* The cells of the artist feature table in the order of the notebook; a
\* run takes them in this order, after the fetch cells.
BuildOrder ==
    <<"binarize", "tfidf", "tsne", "km", "genre_clusters", "genre_specifics",
      "artists_features", "artists_to_json">>

TurnIn(cell, order) ==
    ran = FetchRan \cup {order[i] : i \in 1..(IndexIn(cell, order) - 1)}

Turn(cell) == TurnIn(cell, BuildOrder)

\* The cell of audio_features comes right after save_json("albums", albums).
TurnOfAudioFeatures == ran = FetchRan

NextBuild ==
    \/ CellFollowedArtists /\ UNCHANGED runRest
    \/ CellSaveArtists /\ UNCHANGED runRest
    \/ GetArtistAlbums /\ UNCHANGED runRest
    \/ CellArtistAlbums /\ UNCHANGED runRest
    \/ CellAllAlbums /\ UNCHANGED runRest
    \/ GetAlbum /\ UNCHANGED runRest
    \/ CellAlbums /\ UNCHANGED runRest
    \/ CellSaveAlbums /\ UNCHANGED runRest
    \/ TurnOfAudioFeatures /\ CellAudioFeatures /\ UNCHANGED runRest
    \/ Turn("binarize") /\ CellBinarize /\ UNCHANGED <<dashVars, aggVars, buildVars, fetchVars, envVars>>
    \/ Turn("tfidf") /\ CellTfidf /\ UNCHANGED <<dashVars, aggVars, buildVars, fetchVars, envVars>>
    \/ Turn("tsne") /\ CellTsne /\ UNCHANGED <<dashVars, aggVars, genreVars, fetchVars, envVars>>
    \/ Turn("km") /\ CellKMeans /\ UNCHANGED <<dashVars, aggVars, genreVars, fetchVars, envVars>>
    \/ Turn("genre_clusters") /\ CellGenreClusters /\ UNCHANGED <<dashVars, aggVars, genreVars, fetchVars, envVars>>
    \/ Turn("genre_specifics") /\ CellGenreSpecifics /\ UNCHANGED <<dashVars, aggVars, buildVars, fetchVars, envVars>>
    \/ Turn("artists_features") /\ CellArtistsFeatures /\ UNCHANGED <<dashVars, aggVars, genreVars, fetchVars, envVars>>
    \/ Turn("artists_to_json") /\ CellArtistsToJson /\ UNCHANGED <<dashVars, aggVars, genreVars, buildVars, fetchVars>>
    \/ NewBuildRun

SpecBuild == InitBuild /\ [][NextBuild]_vars

\* The same runs for users who follow any number of artists, from one.
AnyArtistLists ==
    {DealtArtists(n, from, 1) : n \in 1..MaxClusterArtists, from \in {0, 1}}

AnySources == {SourceOf(arts, FileCatalog, <<1>>) : arts \in AnyArtistLists}

InitBuildAny == InitBuildWith(AnySources, JoinLibraries)

SpecBuildAny == InitBuildAny /\ [][NextBuild]_vars

\* The cells of the album feature table, taken in any order in a kernel in
\* which the fetch cells have run.  The album list may hold an album twice
\* (the source lists it once for each of its artists).
AggArtistLists == {DealtArtists(n, 0, 1) : n \in 1..MaxRunArtists}

AggSources ==
    {SourceOf(arts, catalog, uris) :
        arts \in AggArtistLists,
        catalog \in [AlbumUris -> [artists : AlbumContributors]],
        uris \in SeqsOf(AlbumUris, 1, MaxAlbumList)}

InitAgg == InitBuildWith(AggSources, JoinLibraries)

NextAgg ==
    \/ CellReadAlbums /\ UNCHANGED <<dashVars, genreVars, buildVars, fetchVars, envVars>>
    \/ CellAlbumsFeatures /\ UNCHANGED <<dashVars, genreVars, buildVars, fetchVars, envVars>>
    \/ CellTempoFilter /\ UNCHANGED <<dashVars, genreVars, buildVars, fetchVars, envVars>>
    \/ CellAlbumsToJson /\ UNCHANGED <<dashVars, genreVars, buildVars, fetchVars>>

SpecAgg == InitAgg /\ [][NextAgg]_vars

\* The cells of both feature tables in one kernel, in which the fetch cells
\* have bound artists and albums.  The albums are albums the
\* source returned for the followed artist 1: artist 1 is one of their
\* contributing artists, next to the followed artist 2 or to an artist the
\* user does not follow.
Unfollowed == MaxClusterArtists + 1

ContributorLists == {<<1>>, <<1, 2>>, <<2, 1>>, <<1, Unfollowed>>, <<Unfollowed, 1>>}

JoinSources ==
    {SourceOf(DealtArtists(n, 0, 1), catalog, uris) :
        n \in NClusters..MaxClusterArtists,
        catalog \in [AlbumUris -> [artists : ContributorLists]],
        uris \in SeqsOf(AlbumUris, 1, MaxAlbumList)}

InitJoin == InitBuildWith(JoinSources, JoinLibraries)

NextJoin ==
    \/ CellBinarize /\ UNCHANGED <<dashVars, aggVars, buildVars, fetchVars, envVars>>
    \/ CellTfidf /\ UNCHANGED <<dashVars, aggVars, buildVars, fetchVars, envVars>>
    \/ CellGenreSpecifics /\ UNCHANGED <<dashVars, aggVars, buildVars, fetchVars, envVars>>
    \/ CellTsne /\ UNCHANGED <<dashVars, aggVars, genreVars, fetchVars, envVars>>
    \/ CellKMeans /\ UNCHANGED <<dashVars, aggVars, genreVars, fetchVars, envVars>>
    \/ CellGenreClusters /\ UNCHANGED <<dashVars, aggVars, genreVars, fetchVars, envVars>>
    \/ CellArtistsFeatures /\ UNCHANGED <<dashVars, aggVars, genreVars, fetchVars, envVars>>
    \/ CellArtistsToJson /\ UNCHANGED <<dashVars, aggVars, genreVars, buildVars, fetchVars>>
    \/ CellReadAlbums /\ UNCHANGED <<dashVars, genreVars, buildVars, fetchVars, envVars>>
    \/ CellAlbumsFeatures /\ UNCHANGED <<dashVars, genreVars, buildVars, fetchVars, envVars>>
    \/ CellTempoFilter /\ UNCHANGED <<dashVars, genreVars, buildVars, fetchVars, envVars>>
    \/ CellAlbumsToJson /\ UNCHANGED <<dashVars, genreVars, buildVars, fetchVars>>

SpecJoin == InitJoin /\ [][NextJoin]_vars

\* Runs of the cells of the feature tables, one after the other, each from
\* the top in the order of the notebook and in a kernel of its own; the
\* followed artists and the albums listed may differ from one run to the
\* next.  A run stops at the adapter call that raises, at the cell of
\* audio_features or, that cell left out, at the cell of read_json; the
\* cells after read_json are not reached.
FilesOrder ==
    BuildOrder \o <<"read_albums", "albums_features", "tempo_filter", "albums_to_json">>

FileArtistLists == {DealtArtists(NClusters, from, 1) : from \in {0, 1}}

FileSources ==
    {SourceOf(arts, FileCatalog, uris) :
        arts \in FileArtistLists, uris \in {<<1>>, <<2, 1>>}}

InitFiles == InitBuildWith(FileSources, JoinLibraries)

NewFilesRun ==
    /\ error # "none"
    /\ NewKernel(FileSources)

NextFiles ==
    \/ CellFollowedArtists /\ UNCHANGED runRest
    \/ CellSaveArtists /\ UNCHANGED runRest
    \/ GetArtistAlbums /\ UNCHANGED runRest
    \/ CellArtistAlbums /\ UNCHANGED runRest
    \/ CellAllAlbums /\ UNCHANGED runRest
    \/ GetAlbum /\ UNCHANGED runRest
    \/ CellAlbums /\ UNCHANGED runRest
    \/ CellSaveAlbums /\ UNCHANGED runRest
    \/ TurnOfAudioFeatures /\ CellAudioFeatures /\ UNCHANGED runRest
    \/ TurnIn("binarize", FilesOrder) /\ CellBinarize /\ UNCHANGED <<dashVars, aggVars, buildVars, fetchVars, envVars>>
    \/ TurnIn("tfidf", FilesOrder) /\ CellTfidf /\ UNCHANGED <<dashVars, aggVars, buildVars, fetchVars, envVars>>
    \/ TurnIn("tsne", FilesOrder) /\ CellTsne /\ UNCHANGED <<dashVars, aggVars, genreVars, fetchVars, envVars>>
    \/ TurnIn("km", FilesOrder) /\ CellKMeans /\ UNCHANGED <<dashVars, aggVars, genreVars, fetchVars, envVars>>
    \/ TurnIn("genre_clusters", FilesOrder) /\ CellGenreClusters /\ UNCHANGED <<dashVars, aggVars, genreVars, fetchVars, envVars>>
    \/ TurnIn("genre_specifics", FilesOrder) /\ CellGenreSpecifics /\ UNCHANGED <<dashVars, aggVars, buildVars, fetchVars, envVars>>
    \/ TurnIn("artists_features", FilesOrder) /\ CellArtistsFeatures /\ UNCHANGED <<dashVars, aggVars, genreVars, fetchVars, envVars>>
    \/ TurnIn("artists_to_json", FilesOrder) /\ CellArtistsToJson /\ UNCHANGED <<dashVars, aggVars, genreVars, buildVars, fetchVars>>
    \/ TurnIn("read_albums", FilesOrder) /\ CellReadAlbums /\ UNCHANGED <<dashVars, genreVars, buildVars, fetchVars, envVars>>
    \/ NewFilesRun

SpecFiles == InitFiles /\ [][NextFiles]_vars

----------------------------------------------------------------------------
(* Notebook 0: runs of the fetch cells alone.                             *)

\* What the service may hold: up to MaxRunArtists followed artists, for each
\* the list of up to MaxArtistAlbums albums.
Sources ==
    {[followed |-> [i \in 1..n |-> [uri |-> i, genres |-> {}]],
      albums_of |-> [i \in 1..n |-> [k \in DOMAIN lists[i] |-> [uri |-> lists[i][k]]]],
      album |-> [u \in AlbumUris |-> [uri |-> u, artists |-> <<1>>]]] :
        n \in 0..MaxRunArtists,
        lists \in [1..MaxRunArtists -> SeqsOf(AlbumUris, 0, MaxArtistAlbums)]}

InitRun ==
    /\ DashIdle
    /\ BuildIdle
    /\ EnvIdle
    /\ ran = {}
    /\ error = "none"
    /\ source \in Sources
    /\ calls = <<>>
    /\ partial = <<>>
    /\ artists = Unset
    /\ artist_albums = Unset
    /\ all_albums = Unset
    /\ albums = Unset
    /\ audio_features = Unset
    /\ albums_features = Unset
    /\ genres_binarized = Unset
    /\ genres_tfidf = Unset
    /\ genre_specifics = Unset

NextRun ==
    \/ CellFollowedArtists /\ UNCHANGED runRest
    \/ CellSaveArtists /\ UNCHANGED runRest
    \/ GetArtistAlbums /\ UNCHANGED runRest
    \/ CellArtistAlbums /\ UNCHANGED runRest
    \/ CellAllAlbums /\ UNCHANGED runRest
    \/ GetAlbum /\ UNCHANGED runRest
    \/ CellAlbums /\ UNCHANGED runRest
    \/ CellSaveAlbums /\ UNCHANGED runRest
    \/ CellAudioFeatures /\ UNCHANGED runRest

SpecRun == InitRun /\ [][NextRun]_vars

\* The same run for a user who follows at least as many artists as KMeans
\* makes clusters; the first MaxRunArtists of them have albums listed.
ManySources ==
    {[followed |-> [i \in 1..n |-> [uri |-> i, genres |-> {}]],
      albums_of |-> [i \in 1..n |->
            IF i <= MaxRunArtists
            THEN [k \in DOMAIN lists[i] |-> [uri |-> lists[i][k]]]
            ELSE <<>>],
      album |-> [u \in AlbumUris |-> [uri |-> u, artists |-> <<1>>]]] :
        n \in NClusters..MaxClusterArtists,
        lists \in [1..MaxRunArtists -> SeqsOf(AlbumUris, 0, MaxArtistAlbums)]}

InitRunMany ==
    /\ DashIdle
    /\ BuildIdle
    /\ EnvIdle
    /\ ran = {}
    /\ error = "none"
    /\ source \in ManySources
    /\ calls = <<>>
    /\ partial = <<>>
    /\ artists = Unset
    /\ artist_albums = Unset
    /\ all_albums = Unset
    /\ albums = Unset
    /\ audio_features = Unset
    /\ albums_features = Unset
    /\ genres_binarized = Unset
    /\ genres_tfidf = Unset
    /\ genre_specifics = Unset

SpecRunMany == InitRunMany /\ [][NextRun]_vars

----------------------------------------------------------------------------
(* The loaded tables of the model.                                         *)

\* Artist uris are 1..NUris; the followed artists are the first ones, and
\* one more artist exists that the user does not follow.
ArtistUris == 1..(MaxArtists + 1)
ArtistDisplayNames == {"A", "B"}
ReleaseYears == {1989, 1994, 2003}
Loudnesses == {-400, -200, -100, 0}

\* The artists table: one row per followed artist, its uri unique.
ArtistsTable(name_of, n) == [i \in 1..n |-> [uri |-> i, name |-> name_of[i]]]

\* An album row as loaded: the primary artist's uri and display name, the
\* release year, the mean loudness.
AlbumRows(name_of, uris, years, louds) ==
    {[artist_uri |-> u, artist_name |-> name_of[u], release_date |-> y,
      loudness |-> l] : u \in uris, y \in years, l \in louds}

\* Every assignment of display names to the artists (two artists may bear
\* the same name), and one of them.
NameMaps == [ArtistUris -> ArtistDisplayNames]
OneNameMap == {[u \in ArtistUris |-> IF u = 2 THEN "B" ELSE "A"]}

InitDashWith(dashboards, nameMaps, uris, years, louds, maxAlbums) ==
    /\ \E name_of \in nameMaps :
         /\ \E n \in 1..MaxArtists : artists_json = ArtistsTable(name_of, n)
         /\ albums_json \in
                SeqsOf(AlbumRows(name_of, uris, years, louds), 1, maxAlbums)
    /\ dpc = [d \in dashboards |-> Idle]
    /\ dash_albums = [d \in dashboards |-> Unset]
    /\ dash_artists = [d \in dashboards |-> Unset]
    /\ widgets = [d \in dashboards |-> Idle]
    /\ view = [d \in dashboards |-> Idle]
    /\ updated = [d \in dashboards |-> FALSE]
    /\ chart_data = Unset
    /\ KernelIdle

DashNext ==
    \/ (\E d \in DOMAIN widgets : Load(d)) /\ UNCHANGED <<kernelVars, genreVars, aggVars, buildVars, fetchVars, envVars>>
    \/ (\E d \in DOMAIN widgets : Preprocess(d)) /\ UNCHANGED <<kernelVars, genreVars, aggVars, buildVars, fetchVars, envVars>>
    \/ (\E d \in DOMAIN widgets : BuildLayout(d)) /\ UNCHANGED <<kernelVars, genreVars, aggVars, buildVars, fetchVars, envVars>>
    \/ (\E d \in DOMAIN widgets : SelectArtists(d)) /\ UNCHANGED <<kernelVars, genreVars, aggVars, buildVars, fetchVars, envVars>>
    \/ (\E d \in DOMAIN widgets : CheckDecades(d)) /\ UNCHANGED <<kernelVars, genreVars, aggVars, buildVars, fetchVars, envVars>>
    \/ (\E d \in DOMAIN widgets : SelectX(d)) /\ UNCHANGED <<kernelVars, genreVars, aggVars, buildVars, fetchVars, envVars>>
    \/ (\E d \in DOMAIN widgets : SelectY(d)) /\ UNCHANGED <<kernelVars, genreVars, aggVars, buildVars, fetchVars, envVars>>
    \/ (\E d \in DOMAIN widgets : SelectColor(d)) /\ UNCHANGED <<kernelVars, genreVars, aggVars, buildVars, fetchVars, envVars>>
    \/ (\E d \in DOMAIN widgets : Refire(d)) /\ UNCHANGED <<kernelVars, genreVars, aggVars, buildVars, fetchVars, envVars>>

Init == InitDashWith({1}, NameMaps, ArtistUris, {1994, 2003}, {-200}, MaxAlbums)
Next == DashNext
Spec == Init /\ [][Next]_vars

InitPair == InitDashWith({1, 2}, OneNameMap, {1, 2}, {1994, 2003}, {-200}, 1)
SpecPair == InitPair /\ [][Next]_vars

InitPrep == InitDashWith({1}, OneNameMap, {1}, ReleaseYears, Loudnesses, MaxPrepAlbums)
NextPrep ==
    \/ (\E d \in DOMAIN widgets : Load(d)) /\ UNCHANGED <<kernelVars, genreVars, aggVars, buildVars, fetchVars, envVars>>
    \/ (\E d \in DOMAIN widgets : Preprocess(d)) /\ UNCHANGED <<kernelVars, genreVars, aggVars, buildVars, fetchVars, envVars>>
    \/ (\E d \in DOMAIN widgets : BuildLayout(d)) /\ UNCHANGED <<kernelVars, genreVars, aggVars, buildVars, fetchVars, envVars>>
SpecPrep == InitPrep /\ [][NextPrep]_vars

\* The years pd.to_datetime can return: a Timestamp counts nanoseconds in 64
\* bits, from 1677-09-21 to 2262-04-11, and to_datetime raises on a date
\* outside.
MinTimestampYear == 1677
MaxTimestampYear == 2262
TimestampYears == MinTimestampYear..MaxTimestampYear

InitDecade == InitDashWith({1}, OneNameMap, {1}, TimestampYears, {-200}, 1)
SpecDecade == InitDecade /\ [][NextPrep]_vars

----------------------------------------------------------------------------
(* Notebook 2: the static HTML dashboard (Altair).                         *)
(*                                                                         *)
(* The cells run once, top to bottom: read_json, the preprocessing cell    *)
(* (the same code as notebook 1), the join, the charts.  The saved page    *)
(* then holds chart_data and two selections, kept here in widgets[1]:      *)
(*   genres_selector   selection_multi on genre_cluster, a set of clusters *)
(*   artists_selector  an interval selection drawn on the artists chart,   *)
(*                     Unset or the rectangle [x1, x2, y1, y2]             *)
(* view[1] is what the page draws from them.                               *)

ChartClusters == {0, 1}
Positions == 1..MaxPosition

\* An artist row as loaded: genre_x and genre_y are its place in the layout.
ChartArtistRows(u) ==
    {[uri |-> u, name |-> <<"artist", u>>, genre_cluster |-> c,
      genre_x |-> x, genre_y |-> 1] : c \in ChartClusters, x \in Positions}

ChartArtistsTables ==
    UNION {{t \in [1..n -> UNION {ChartArtistRows(u) : u \in 1..n}] :
                \A i \in 1..n : t[i].uri = i} : n \in 1..MaxArtists}

ChartNames == [u \in ArtistUris |-> <<"artist", u>>]

\* albums[albums_columns] with its index, row by row.
WithIndex(rows) ==
    [i \in DOMAIN rows |->
        [idx |-> i, artist_uri |-> rows[i].artist_uri,
         artist_name |-> rows[i].artist_name,
         release_date |-> rows[i].release_date, loudness |-> rows[i].loudness]]

\* The rows of artists.set_index("uri") at a uri.
ArtistsAt(arts, uri) == {i \in DOMAIN arts : arts[i].uri = uri}

\* An album row with the columns of its artist row joined to it (none when
\* the artists table has no row at its artist_uri), artist_uri dropped.
JoinedRow(r, arts) ==
    IF ArtistsAt(arts, r.artist_uri) = {}
    THEN [idx |-> r.idx, artist_name |-> r.artist_name,
          release_date |-> r.release_date, loudness |-> r.loudness,
          genre_cluster |-> Unset, genre_x |-> Unset, genre_y |-> Unset]
    ELSE LET a == arts[CHOOSE i \in ArtistsAt(arts, r.artist_uri) : TRUE]
         IN  [idx |-> r.idx, artist_name |-> r.artist_name,
              release_date |-> r.release_date, loudness |-> r.loudness,
              genre_cluster |-> a.genre_cluster, genre_x |-> a.genre_x,
              genre_y |-> a.genre_y]

\* albums[...].join(artists.set_index("uri")[...], on="artist_uri",
\* how="inner").drop("artist_uri", axis=1): the album rows whose artist_uri
\* is a uri of the artists table, in the order of albums, each with the
\* columns of its artist.  The uris of the artists table are distinct.
JoinInner(rows, arts) ==
    LET Matched(r) == ArtistsAt(arts, r.artist_uri) # {}
        kept == SelectSeq(WithIndex(rows), Matched)
    IN  [i \in DOMAIN kept |-> JoinedRow(kept[i], arts)]

\* The test of artists_selector on a row: an interval selection that is
\* empty lets every row through (empty="all"); a drawn one lets through the
\* rows whose genre_x and genre_y lie in its extent.
InInterval(brush, r) ==
    \/ brush = Unset
    \/ /\ brush # Unset
       /\ brush.x1 <= r.genre_x /\ r.genre_x <= brush.x2
       /\ brush.y1 <= r.genre_y /\ r.genre_y <= brush.y2

\* The test of genres_selector on a row.
InGenres(genres, r) == genres = {} \/ r.genre_cluster \in genres

\* What the page draws.  genres_color is the encoding of genres_points and
\* artists_points only; albums_points draws every row of data, in the colour
\* of its loudness when artists_selector lets it through and in light gray
\* otherwise; albums_tooltips is data filtered by artists_selector.
ChartView(rows, sel) ==
    [artists_points |->
        {[artist_name |-> rows[i].artist_name,
          color |-> IF InGenres(sel.genres_selector, rows[i])
                    THEN rows[i].genre_cluster ELSE "lightgray"] :
            i \in DOMAIN rows},
     albums_points |->
        [i \in DOMAIN rows |->
            [idx |-> rows[i].idx,
             color |-> IF InInterval(sel.artists_selector, rows[i])
                       THEN "loudness" ELSE "lightgray"]],
     albums_tooltips |->
        LET Passes(r) == InInterval(sel.artists_selector, r)
            kept == SelectSeq(rows, Passes)
        IN  [i \in DOMAIN kept |-> kept[i].idx]]

NoSelection == [genres_selector |-> {}, artists_selector |-> Unset]

\* The join cell.
JoinData ==
    /\ dpc[1] = "preprocessed"
    /\ widgets[1] = Idle
    /\ chart_data' = JoinInner(dash_albums[1], dash_artists[1])
    /\ dpc' = [dpc EXCEPT ![1] = "joined"]
    /\ UNCHANGED <<albums_json, artists_json, dash_albums, dash_artists, widgets, view, updated>>

\* The cells of the charts and chart.save: the page as it opens.
BuildChart ==
    /\ dpc[1] = "joined"
    /\ widgets' = [widgets EXCEPT ![1] = NoSelection]
    /\ view' = [view EXCEPT ![1] = ChartView(chart_data, NoSelection)]
    /\ dpc' = [dpc EXCEPT ![1] = "charted"]
    /\ UNCHANGED <<albums_json, artists_json, dash_albums, dash_artists, updated, chart_data>>

\* A selection event of the page.
SelectionEvent(sel) ==
    /\ dpc[1] = "charted"
    /\ sel # widgets[1]
    /\ widgets' = [widgets EXCEPT ![1] = sel]
    /\ view' = [view EXCEPT ![1] = ChartView(chart_data, sel)]
    /\ UNCHANGED <<albums_json, artists_json, dpc, dash_albums, dash_artists, updated, chart_data>>

PlottedClusters == {chart_data[i].genre_cluster : i \in DOMAIN chart_data}

\* A click on a point of genres_points selects its cluster alone.
ClickGenre ==
    \E c \in PlottedClusters :
        SelectionEvent([widgets[1] EXCEPT !.genres_selector = {c}])

\* A shift-click adds the cluster to the selection, or takes it out.
ShiftClickGenre ==
    \E c \in PlottedClusters :
        SelectionEvent([widgets[1] EXCEPT !.genres_selector =
            IF c \in @ THEN @ \ {c} ELSE @ \cup {c}])

\* A click off the points empties genres_selector.
ClearGenres == SelectionEvent([widgets[1] EXCEPT !.genres_selector = {}])

\* A rectangle drawn on the artists chart.
DrawInterval ==
    \E x1 \in Positions, x2 \in Positions, y1 \in Positions, y2 \in Positions :
        /\ x1 <= x2
        /\ y1 <= y2
        /\ SelectionEvent([widgets[1] EXCEPT !.artists_selector =
                [x1 |-> x1, x2 |-> x2, y1 |-> y1, y2 |-> y2]])

\* A click off the rectangle empties artists_selector.
ClearInterval == SelectionEvent([widgets[1] EXCEPT !.artists_selector = Unset])

InitAltair ==
    /\ artists_json \in ChartArtistsTables
    /\ albums_json \in
            SeqsOf(AlbumRows(ChartNames, ArtistUris, {1994, 2003}, {-200}), 1, MaxAlbums)
    /\ dpc = [d \in {1} |-> Idle]
    /\ dash_albums = [d \in {1} |-> Unset]
    /\ dash_artists = [d \in {1} |-> Unset]
    /\ widgets = [d \in {1} |-> Idle]
    /\ view = [d \in {1} |-> Idle]
    /\ updated = [d \in {1} |-> FALSE]
    /\ chart_data = Unset
    /\ KernelIdle

NextAltair ==
    \/ Load(1) /\ UNCHANGED <<kernelVars, genreVars, aggVars, buildVars, fetchVars, envVars>>
    \/ Preprocess(1) /\ UNCHANGED <<kernelVars, genreVars, aggVars, buildVars, fetchVars, envVars>>
    \/ JoinData /\ UNCHANGED <<kernelVars, genreVars, aggVars, buildVars, fetchVars, envVars>>
    \/ BuildChart /\ UNCHANGED <<kernelVars, genreVars, aggVars, buildVars, fetchVars, envVars>>
    \/ ClickGenre /\ UNCHANGED <<kernelVars, genreVars, aggVars, buildVars, fetchVars, envVars>>
    \/ ShiftClickGenre /\ UNCHANGED <<kernelVars, genreVars, aggVars, buildVars, fetchVars, envVars>>
    \/ ClearGenres /\ UNCHANGED <<kernelVars, genreVars, aggVars, buildVars, fetchVars, envVars>>
    \/ DrawInterval /\ UNCHANGED <<kernelVars, genreVars, aggVars, buildVars, fetchVars, envVars>>
    \/ ClearInterval /\ UNCHANGED <<kernelVars, genreVars, aggVars, buildVars, fetchVars, envVars>>

SpecAltair == InitAltair /\ [][NextAltair]_vars

----------------------------------------------------------------------------
(* Claims about the backend dashboard.                                     *)

\* The albums whose primary artist is one of the selected artists (all of
\* them when nothing is selected) and whose decade is checked.
SelectedUris(arts, index) == {arts[i].uri : i \in index}

AlbumsOfSelection(rows, arts, w) ==
    LET Wanted(r) ==
            /\ w.index # {} => r.artist_uri \in SelectedUris(arts, w.index)
            /\ r.decade \in w.decades
    IN  SelectSeq(rows, Wanted)

\* C1: once the update callback has run, the album view holds exactly the
\* albums whose primary artist is in the artist selection S and whose decade
\* is in the decade selection D; with S empty, exactly the albums whose
\* decade is in D.
C1_ViewIsPrimaryArtistAndDecade ==
    \A d \in DOMAIN updated :
        updated[d] =>
            view[d].data =
                AlbumsOfSelection(dash_albums[d], dash_artists[d], widgets[d])

\* C2: the album view is a function of the current widget values and the
\* static tables: two dashboards over the same tables whose event sequences
\* end with the same widget values show the same view (a re-fired event is
\* one of the events).
C2_SameWidgetsSameView ==
    \A d1, d2 \in DOMAIN widgets :
        (dpc[d1] = "ready" /\ dpc[d2] = "ready" /\ widgets[d1] = widgets[d2])
            => view[d1] = view[d2]

\* Dashboard 1 has run update, dashboard 2 has seen no event, and both hold
\* the same widget values with one decade unchecked on the way.
C2_Witness ==
    /\ dpc[1] = "ready" /\ dpc[2] = "ready"
    /\ updated[1] /\ ~updated[2]
    /\ widgets[1] = widgets[2]
    /\ view[1].data # <<>>

----------------------------------------------------------------------------
(* Claims about the dashboard's preprocessing.                             *)

Preprocessed(d) == dpc[d] \in {"preprocessed", "ready"}

P5 == Quantile(LoudnessColumn(albums_json), LowerQ)
P95 == Quantile(LoudnessColumn(albums_json), UpperQ)

\* C6: after the preprocessing no displayed loudness lies below the 5th or
\* above the 95th percentile of the loudness column as loaded, and a value
\* that was inside that range is displayed unchanged.
C6_LoudnessWinsorized ==
    \A d \in DOMAIN dpc :
        Preprocessed(d) =>
            \A i \in DOMAIN dash_albums[d] :
                /\ P5 <= dash_albums[d][i].loudness
                /\ dash_albums[d][i].loudness <= P95
                /\ (P5 <= albums_json[i].loudness /\ albums_json[i].loudness <= P95)
                     => dash_albums[d][i].loudness = albums_json[i].loudness

\* Three albums of three different loudnesses: the lowest is raised, the
\* highest lowered, the middle one kept.
C6_Witness ==
    /\ Preprocessed(1)
    /\ \E i, j, k \in DOMAIN dash_albums[1] :
         /\ dash_albums[1][i].loudness > albums_json[i].loudness
         /\ dash_albums[1][j].loudness < albums_json[j].loudness
         /\ dash_albums[1][k].loudness = albums_json[k].loudness

----------------------------------------------------------------------------
(* Claims about the genre cells.                                           *)

TagsSeen == {t \in GenreTags : \E i \in DOMAIN artists : t \in artists[i].genres}

\* C7: the genre binary matrix has exactly one column per distinct genre tag
\* seen across all artists (none missing, none twice), one row per artist in
\* input order, a cell is 1 exactly when that artist carries that tag, and
\* each row sum equals that artist's number of genre tags.
C7_GenreMatrix ==
    "binarize" \in ran =>
        LET columns == genres_binarized.columns
            rows == genres_binarized.rows
        IN  /\ Range(columns) = TagsSeen
            /\ \A j, k \in DOMAIN columns : columns[j] = columns[k] => j = k
            /\ DOMAIN rows = DOMAIN artists
            /\ \A i \in DOMAIN rows :
                 /\ DOMAIN rows[i] = DOMAIN columns
                 /\ \A j \in DOMAIN columns :
                      /\ rows[i][j] \in {0, 1}
                      /\ rows[i][j] = 1 <=> columns[j] \in artists[i].genres
                 /\ SeqSum(rows[i]) = Cardinality(artists[i].genres)

\* Two artists share a tag, one carries two tags and one carries none.
C7_Witness ==
    /\ "binarize" \in ran
    /\ Len(genres_binarized.columns) >= 2
    /\ \E i, j \in DOMAIN artists : i # j /\ artists[i].genres \cap artists[j].genres # {}
    /\ \E i \in DOMAIN artists : Cardinality(artists[i].genres) >= 2
    /\ \E i \in DOMAIN artists : artists[i].genres = {}

\* genre_specific of artist i is the first column holding the maximum of
\* row i of the weighted matrix.
FirstMaxColumn(i) ==
    \E j \in DOMAIN genres_tfidf.columns :
        /\ genre_specifics[i] = genres_tfidf.columns[j]
        /\ \A k \in DOMAIN genres_tfidf.columns :
             /\ genres_tfidf.rows[i][k] <= genres_tfidf.rows[i][j]
             /\ k < j => genres_tfidf.rows[i][k] < genres_tfidf.rows[i][j]

GenreSpecificIsFirstMax ==
    "genre_specifics" \in ran =>
        /\ DOMAIN genre_specifics = DOMAIN artists
        /\ \A i \in DOMAIN artists :
             /\ FirstMaxColumn(i)
             /\ artists[i].genres = {} => genre_specifics[i] = genres_tfidf.columns[1]

\* C8 as stated: genre_specific is the first column holding the row's
\* maximum, and for an artist with no genre tag the computation does not
\* fail and returns the first genre column.
C8_NeverFails ==
    /\ GenreSpecificIsFirstMax
    /\ (\E i \in DOMAIN artists : artists[i].genres = {}) => error = "none"

\* C8 as amended: the same, the computation not failing provided some
\* artist carries a genre tag (the matrix has a column); with no genre tag
\* at all the tfidf cell fails.
C8_FirstMaxUnlessNoColumn ==
    /\ GenreSpecificIsFirstMax
    /\ (TagsSeen # {} /\ \E i \in DOMAIN artists : artists[i].genres = {})
            => error = "none"
    /\ TagsSeen = {} /\ "tfidf" \in ran => error # "none"

\* An artist with no tag beside two columns, an artist whose two tags weigh
\* the same, and an artist whose heaviest tag is not its first.
C8_Witness ==
    /\ "genre_specifics" \in ran
    /\ Len(genres_tfidf.columns) >= 2
    /\ \E i \in DOMAIN artists : artists[i].genres = {}
    /\ \E i \in DOMAIN artists :
         \E j, k \in DOMAIN genres_tfidf.columns :
            /\ j < k
            /\ genres_tfidf.rows[i][j] = genres_tfidf.rows[i][k]
            /\ genres_tfidf.rows[i][j] > 0
            /\ genre_specifics[i] = genres_tfidf.columns[j]
    /\ \E i \in DOMAIN artists :
         \E j, k \in DOMAIN genres_tfidf.columns :
            /\ j < k
            /\ 0 < genres_tfidf.rows[i][j]
            /\ genres_tfidf.rows[i][j] < genres_tfidf.rows[i][k]
            /\ genre_specifics[i] = genres_tfidf.columns[k]

----------------------------------------------------------------------------
(* Claims about the album feature cells.                                   *)

\* The audio-feature records of the tracks of album uri.
FeatsOf(uri) == (CHOOSE e \in Range(audio_features) : e.uri = uri).feats

\* The arithmetic mean over the tracks whose record is not None.
MeanOfNotNone(feats, key) == Quotient(SumNotNone(feats, key), NotNoneCount(feats))

\* Claim C3.  Once the albums_features cell has been run, every album of
\* the fetched list has its row in the table, and each of the 12
\* descriptors of the row is the mean over only the tracks whose record is
\* not None: their sum divided by their number.
C3_MeanOverNonNull ==
    "albums_features" \in ran =>
        \A i \in DOMAIN albums :
            /\ i \in DOMAIN albums_features
            /\ \A key \in FeatureKeys :
                    NotNoneCount(FeatsOf(albums[i].uri)) > 0 =>
                        albums_features[i][key] = MeanOfNotNone(FeatsOf(albums[i].uri), key)

AllNone(uri) == NotNoneCount(FeatsOf(uri)) = 0

UrisOf(rows) == [i \in DOMAIN rows |-> rows[i]["uri"]]

NotAllNone(album) == ~AllNone(album.uri)

\* Claim C4.  Once the cell of the tempo filter has been run, the run has
\* gone on without an error, no album whose tracks are all None is in the
\* album feature table, and the row of every other album is kept.
C4_OnlyAllNullDropped ==
    "tempo_filter" \in ran =>
        /\ error = "none"
        /\ \A i \in DOMAIN albums_features : ~AllNone(albums_features[i]["uri"])
        /\ UrisOf(albums_features) = UrisOf(SelectSeq(albums, NotAllNone))

\* Claim C17.  Whatever the fetched album list, a uri occurring twice in it
\* included, once the albums_features cell has been run the album feature
\* table has one row per album record, and the row of a record is the one
\* computed from the audio-feature records of the tracks of that record's
\* own album.
C17_RowsFromOwnTracks ==
    "albums_features" \in ran =>
        /\ albums_features # Unset
        /\ Len(albums_features) = Len(albums)
        /\ \A i \in DOMAIN albums_features :
                albums_features[i] = AlbumFeatureRow(albums[i], FeatsOf(albums[i].uri))

----------------------------------------------------------------------------
(* Claims about the artist feature table.                                  *)

\* Claim C9.  All runs of a behaviour are runs of the Feature Builder on the
\* same list of artists with the same seed, each in a kernel of its own.
\* Whatever a run has computed equals what every earlier run computed of it: the
\* cluster of every artist (km.labels_), the genre_cluster labels, the
\* coordinates (tsne.embedding_) and the artist feature table; and every
\* artists_features.json written holds the same rows.
C9_SameSeedSameTable ==
    /\ \A i, j \in DOMAIN writes :
            writes[i].name = "artists_features" /\ writes[j].name = "artists_features"
                => writes[i].data = writes[j].data
    /\ \A k \in DOMAIN earlier :
            /\ earlier[k].km # Unset /\ km # Unset
                    => km.labels_ = earlier[k].km.labels_
            /\ earlier[k].genre_clusters # Unset /\ genre_clusters # Unset
                    => genre_clusters = earlier[k].genre_clusters
            /\ earlier[k].tsne # Unset /\ tsne # Unset
                    => tsne.embedding_ = earlier[k].tsne.embedding_
            /\ earlier[k].artists_features # Unset /\ artists_features # Unset
                    => artists_features = earlier[k].artists_features

\* A second run has written its table, in a kernel whose global generator
\* started in another state than the first run's, the library returning
\* another clustering and another layout from the one state than from the
\* other.
C9_Witness ==
    /\ run = 2
    /\ "artists_to_json" \in ran
    /\ "artists_to_json" \in earlier[1].ran
    /\ earlier[1].entropy # entropy
    /\ library.kmeans[0] # library.kmeans[1]
    /\ library.tsne[0] # library.tsne[1]
    /\ ~library.checks_perplexity
    /\ Len(writes) = 6

\* The rows of the artist table a run wrote that an album row of the same
\* run refers to.
MatchesOf(row, artist_rows) == {i \in DOMAIN artist_rows : artist_rows[i].uri = row.artist_uri}

\* Claim C5.  In the feature tables a run has written, the artist_uri of
\* every album row is the uri of exactly one row of the artist table.  No
\* run writes the album table (CellAlbumsToJson raises, the table never
\* being built), so no state holds an album row to resolve.
C5_PrimaryArtistResolves ==
    \A a, b \in DOMAIN writes :
        /\ writes[a].name = "albums_features"
        /\ writes[b].name = "artists_features"
        /\ writes[a].run = writes[b].run
        => \A k \in DOMAIN writes[a].data :
                Cardinality(MatchesOf(writes[a].data[k], writes[b].data)) = 1

----------------------------------------------------------------------------
(* Claims about the fetch cells.                                           *)

FailedCalls == {i \in DOMAIN calls : calls[i].outcome = "raise"}

FeatureTables == {"artists_features", "albums_features"}

\* Claim C10.  Once a call of the adapter has raised, the run has stopped
\* with that failure: the failed call is the last call issued (neither it
\* nor any other call is issued after it), the run has written no feature
\* table, and no step of the run is taken from then on.
C10_AbortsAtFailedCall ==
    /\ [](FailedCalls # {} =>
            /\ FailedCalls = {Len(calls)}
            /\ error = AdapterError
            /\ \A w \in DOMAIN writes :
                    writes[w].run = run => writes[w].name \notin FeatureTables)
    /\ [][FailedCalls = {} \/ UNCHANGED vars]_vars

\* A get_album call has raised after other calls have returned and after
\* the snapshot of the artists has been written.
C10_Witness ==
    /\ FailedCalls # {}
    /\ calls[Len(calls)].op = "get_album"
    /\ Len(calls) >= 4
    /\ \E w \in DOMAIN writes : writes[w].name = "artists"

----------------------------------------------------------------------------
(* Claims about a whole run of notebook 0.                                 *)

WrittenBy(r) == {writes[w].name : w \in {v \in DOMAIN writes : writes[v].run = r}}

\* Claim C11.  A run in which no adapter call has raised, of a user who
\* follows at least NClusters artists, does not stop before it has written
\* the four datasets: when it has stopped, all four are written.
C11_CompleteRunWritesAll ==
    /\ error # "none"
    /\ FailedCalls = {}
    /\ Len(source.followed) >= NClusters
    => WrittenBy(run) = Datasets

\* The last write of a file in the order of the writes.
LastWrite(name) ==
    CHOOSE w \in DOMAIN writes :
        /\ writes[w].name = name
        /\ \A v \in DOMAIN writes : v > w => writes[v].name # name

\* The table a run has computed, in its kernel or in what it left behind.
TableOf(r, name) ==
    IF r < run THEN earlier[r][name]
    ELSE IF name = "artists_features" THEN artists_features
    ELSE albums_features

\* Claim C12.  After any sequence of runs, each feature-table file holds
\* exactly the rows of the table computed by the most recent run that wrote
\* it, and no file exists that no run wrote: a write replaces the file and
\* nothing else changes it.
C12_FileHoldsLastWritersRows ==
    \A name \in FeatureTables :
        IF \A w \in DOMAIN writes : writes[w].name # name
        THEN files[name] = Unset
        ELSE /\ files[name] = writes[LastWrite(name)].data
             /\ files[name] = TableOf(writes[LastWrite(name)].run, name)

\* A second run has written the artist table over the one a first run wrote
\* with other rows, and has then stopped.
C12_Witness ==
    /\ run = 2
    /\ "artists_to_json" \in ran
    /\ error # "none"
    /\ Len(writes) = 6
    /\ earlier[1].artists_features # artists_features
    /\ files["artists_features"] = artists_features
    /\ files["albums_features"] = Unset

\* Claim C13.  In a run on fewer artists than KMeans makes clusters, the
\* cell of km, once run, has stopped the run with a ValueError; no cell
\* after it runs, no cluster label is produced and the run writes no artist
\* feature table.
C13_TooFewArtistsFails ==
    Len(artists) < NClusters =>
        /\ "km" \in ran => error = "ValueError" /\ km = Unset
        /\ ran \subseteq FetchRan \cup {"audio_features", "binarize", "tfidf", "tsne", "km"}
        /\ genre_clusters = Unset
        /\ artists_features = Unset
        /\ "artists_features" \notin WrittenBy(run)

\* The cell of km has failed on fewer rows than clusters, the cells before
\* it having passed.
C13_Witness ==
    /\ Len(artists) = NClusters - 1
    /\ ran = FetchRan \cup {"binarize", "tfidf", "tsne", "km"}
    /\ tsne # Unset
    /\ error = "ValueError"

----------------------------------------------------------------------------
(* Claims about the decade column.                                         *)

\* Claim C14.  Once the preprocessing cell has run, the decade of every
\* album is the string of its release year rounded down to a multiple of 10,
\* for every year a release date can have.
C14_DecadeIsYearRoundedDown ==
    \A d \in DOMAIN dpc :
        dpc[d] \notin {Idle, "loaded"} =>
            \A i \in DOMAIN dash_albums[d] :
                dash_albums[d][i].decade =
                    Digits(10 * (dash_albums[d][i].year \div 10))

\* An album of the last year of a decade and century has been preprocessed.
C14_Witness ==
    /\ dpc[1] \notin {Idle, "loaded"}
    /\ \E i \in DOMAIN dash_albums[1] :
            dash_albums[1][i].year = 1999
         /\ dash_albums[1][i].decade = <<1, 9, 9, 0>>

----------------------------------------------------------------------------
(* Claims about the tables of the dashboards.                              *)

\* Claim C15.  Every step taken once a dashboard is ready, that is every
\* widget event with the run of update it sets off, in its session or in
\* another one, leaves its albums table, its artists table and the loaded
\* files as they are; it changes the widget values and the album view only.
C15_EventsLeaveTables ==
    [][\A d \in DOMAIN dpc :
            dpc[d] = "ready" =>
                /\ dash_albums'[d] = dash_albums[d]
                /\ dash_artists'[d] = dash_artists[d]
                /\ albums_json' = albums_json
                /\ artists_json' = artists_json
                /\ dpc'[d] = dpc[d]]_vars

\* update has run on a selection that leaves some album out of the view.
C15_Witness ==
    /\ dpc[1] = "ready"
    /\ updated[1]
    /\ Len(view[1].data) < Len(dash_albums[1])
    /\ widgets[1].index # {}

----------------------------------------------------------------------------
(* Claims about the static dashboard.                                      *)

\* The artists of the selection: the rows of the artists table that the
\* drawn rectangle and the clicked clusters both let through.
ChartSelection ==
    {i \in DOMAIN dash_artists[1] :
        /\ InInterval(widgets[1].artists_selector, dash_artists[1][i])
        /\ InGenres(widgets[1].genres_selector, dash_artists[1][i])}

\* The albums the album view shows as selected, by their row in albums.
ShownAlbums ==
    {view[1].albums_points[i].idx : i \in
        {j \in DOMAIN view[1].albums_points :
            view[1].albums_points[j].color # "lightgray"}}

\* The rows the backend dashboard shows for a selection of artists with
\* every decade checked.
BackendShown(index) ==
    {i \in DOMAIN dash_albums[1] :
        FilterAlbums(<<dash_albums[1][i]>>, dash_artists[1],
                     [index |-> index, decades |-> Decades(dash_albums[1])]) # <<>>}

\* Claim C16.  On the static page, with a selection made by a rectangle or
\* by a click on a cluster, the album view shows exactly the albums whose
\* primary artist is in the selection; with no selection it shows every
\* album of the albums table; and it shows the album set of the backend
\* dashboard for the same artists with every decade checked.
C16_SelectionFiltersAlbums ==
    dpc[1] = "charted" =>
        /\ widgets[1] = NoSelection => ShownAlbums = DOMAIN dash_albums[1]
        /\ widgets[1] # NoSelection =>
                ShownAlbums = {i \in DOMAIN dash_albums[1] :
                    dash_albums[1][i].artist_uri \in
                        SelectedUris(dash_artists[1], ChartSelection)}
        /\ ShownAlbums = BackendShown(ChartSelection)

=============================================================================
